---------------------------- MODULE Spec2Model ----------------------------
(***************************************************************************)
(* A model of src/ssr.py: the subscription-to-Clash converter.             *)
(*                                                                         *)
(* Text is modelled at character level: a str is a sequence of Unicode     *)
(* code points, a bytes object a sequence of integers 0..255.  The library *)
(* functions the converter calls (base64, str.split, int, json.loads,      *)
(* urllib.parse.parse_qs/unquote, re.findall) are operators that compute   *)
(* what CPython 3.11 computes on these sequences.                          *)
(***************************************************************************)
EXTENDS Integers, Sequences, FiniteSets, TLC

(***************************************************************************)
(* Characters.  Printable ASCII, in code-point order from 32 (space); the   *)
(* grave accent (96), which a TLA+ string cannot hold, is spelled GRAVE.    *)
(***************************************************************************)
Ascii ==
  << " ", "!", "\"", "#", "$", "%", "&", "'", "(", ")", "*", "+", ",", "-",
     ".", "/", "0", "1", "2", "3", "4", "5", "6", "7", "8", "9", ":", ";",
     "<", "=", ">", "?", "@", "A", "B", "C", "D", "E", "F", "G", "H", "I",
     "J", "K", "L", "M", "N", "O", "P", "Q", "R", "S", "T", "U", "V", "W",
     "X", "Y", "Z", "[", "\\", "]", "^", "_", "GRAVE", "a", "b", "c", "d", "e",
     "f", "g", "h", "i", "j", "k", "l", "m", "n", "o", "p", "q", "r", "s",
     "t", "u", "v", "w", "x", "y", "z", "{", "|", "}", "~" >>

\* ord(c) of a printable ASCII character.
Ord(c) == 31 + (CHOOSE pos \in 1..Len(Ascii) : Ascii[pos] = c)

\* The str whose characters are the one-character strings of cs.
Str(cs) == SubSeq([pos \in 1..Len(cs) |-> Ord(cs[pos])], 1, Len(cs))

chNL      == Ord(" ") - 22
chSpace   == Ord(" ")
chHash    == Ord("#")
chPercent == Ord("%")
chAmp     == Ord("&")
chPlus    == Ord("+")
chMinus   == Ord("-")
chSlash   == Ord("/")
chColon   == Ord(":")
chEquals  == Ord("=")
chQuery   == Ord("?")
chAt      == Ord("@")
chUnder   == Ord("_")
chQuote   == Ord("\"")
chComma   == Ord(",")
chLBrace  == Ord("{")
chRBrace  == Ord("}")
chZero    == Ord("0")
chUpperA  == Ord("A")
chUpperF  == Ord("F")
chUpperZ  == Ord("Z")
chLowerA  == Ord("a")
chLowerF  == Ord("f")
chLowerZ  == Ord("z")
chBackslash == Ord("\\")
chDot     == Ord(".")
chLowerE  == Ord("e")
chUpperE  == Ord("E")
chReplacement == 16 * 16 * 16 * 16 - 3       \* U+FFFD

\* The literal strings of the converter and of str().
sTrue       == Str(<<"T","r","u","e">>)
sFalse      == Str(<<"F","a","l","s","e">>)
sNone       == Str(<<"N","o","n","e">>)
sPs         == Str(<<"p","s">>)
sId         == Str(<<"i","d">>)
sAid        == Str(<<"a","i","d">>)
sScy        == Str(<<"s","c","y">>)
sNet        == Str(<<"n","e","t">>)
sHost       == Str(<<"h","o","s","t">>)
sPath       == Str(<<"p","a","t","h">>)
sTypeVmess  == Str(<<"v","m","e","s","s">>)
sTypeSs     == Str(<<"s","s">>)
sTypeSsr    == Str(<<"s","s","r">>)
sPassword   == Str(<<"p","a","s","s","w","o","r","d">>)
sObfsparam  == Str(<<"o","b","f","s","p","a","r","a","m">>)
sProtoparam == Str(<<"p","r","o","t","o","p","a","r","a","m">>)
sRemarks    == Str(<<"r","e","m","a","r","k","s">>)

\* str.isspace() / the regex class \s on str, restricted to the code points
\* below U+0100 (the corpus holds no others).
IsSpace(c) == c \in (9..13) \cup (28..32) \cup {133, 160}

IsDigit(c) == c \in chZero..(chZero + 9)

\* The sequence f with its elements computed (a function written
\* [pos \in 1..n |-> e] is otherwise recomputed at each use).
Seq1(f) == SubSeq(f, 1, Len(f))

\* F(v): the value v under the name F gives it, as after `name = v`.
With(v, F(_)) == F(v)

\* s[pos:j] with 1-based inclusive bounds.
Slice(s, pos, j) == IF pos > j THEN <<>> ELSE SubSeq(s, pos, j)

\* s.startswith(p)
startswith(s, p) == Len(s) >= Len(p) /\ SubSeq(s, 1, Len(p)) = p

\* whether sub occurs in s at position pos
MatchAt(s, sub, pos) ==
  /\ pos >= 1
  /\ pos + Len(sub) - 1 <= Len(s)
  /\ \A k \in 1..Len(sub) : s[pos + k - 1] = sub[k]

Min(S) == CHOOSE x \in S : \A y \in S : x <= y
Max(S) == CHOOSE x \in S : \A y \in S : y <= x

\* The first position k >= pos with Test(s[k]), Len(s) + 1 if there is none.
FirstWhere(s, pos, Test(_)) ==
  LET hits == { k \in pos..Len(s) : Test(s[k]) }
  IN  IF hits = {} THEN Len(s) + 1 ELSE Min(hits)

\* s.find(sub, pos): the first position >= pos where sub occurs, 0 if none.
Find(s, sub, pos) ==
  LET hits == { k \in pos..(Len(s) - Len(sub) + 1) : MatchAt(s, sub, k) }
  IN  IF hits = {} THEN 0 ELSE Min(hits)

\* s.rfind(sub): the last position where sub occurs, 0 if none.
RFind(s, sub) ==
  LET hits == { k \in 1..(Len(s) - Len(sub) + 1) : MatchAt(s, sub, k) }
  IN  IF hits = {} THEN 0 ELSE Max(hits)

\* sub in s
Contains(s, sub) == Find(s, sub, 1) # 0

\* s.split(sep, 1) when sep in s: <<before, after>>
split1(s, sep) ==
  With(Find(s, sep, 1), LAMBDA pos :
    << Slice(s, 1, pos - 1), Slice(s, pos + Len(sep), Len(s)) >>)

\* s.rsplit(sep, 1) when sep in s: <<before, after>>
rsplit1(s, sep) ==
  With(RFind(s, sep), LAMBDA pos :
    << Slice(s, 1, pos - 1), Slice(s, pos + Len(sep), Len(s)) >>)

\* s.split(sep): every part, in order (at least one).
RECURSIVE split(_, _)
split(s, sep) ==
  With(Find(s, sep, 1), LAMBDA pos :
    IF pos = 0 THEN << s >>
    ELSE << Slice(s, 1, pos - 1) >> \o split(Slice(s, pos + Len(sep), Len(s)), sep))

\* s.strip()
strip(s) ==
  With(Len(s), LAMBDA n :
    Slice(s, FirstWhere(s, 1, LAMBDA c : ~IsSpace(c)),
             n - Min({ k \in 0..n : k = n \/ ~IsSpace(s[n - k]) })))

\* str(n) for an int n
RECURSIVE DigitsOf(_)
DigitsOf(n) ==
  IF n < 10 THEN << chZero + n >>
  ELSE Append(DigitsOf(n \div 10), chZero + (n % 10))
str(n) == IF n < 0 THEN << chMinus >> \o DigitsOf(-n) ELSE DigitsOf(n)

(***************************************************************************)
(* Results of operations that may raise: Raised, or Ok(value).             *)
(***************************************************************************)
Raised == [ok |-> FALSE]
Ok(v)  == [ok |-> TRUE, v |-> v]

\* int(s) for a str s: surrounding whitespace, an optional sign, then decimal
\* digits with single underscores allowed between digits; ValueError otherwise.
RECURSIVE IntDigits(_, _, _, _)
IntDigits(s, pos, acc, prevDigit) ==
  IF pos > Len(s) THEN (IF prevDigit THEN Ok(acc) ELSE Raised)
  ELSE IF IsDigit(s[pos]) THEN IntDigits(s, pos + 1, (acc * 10) + (s[pos] - chZero), TRUE)
  ELSE IF s[pos] = chUnder /\ prevDigit THEN IntDigits(s, pos + 1, acc, FALSE)
  ELSE Raised
int(s) ==
  With(strip(s), LAMBDA t :
  With(IF Len(t) > 0 /\ t[1] \in {chMinus, chPlus} THEN Tail(t) ELSE t, LAMBDA body :
  With(IF Len(body) = 0 THEN Raised ELSE IntDigits(body, 1, 0, FALSE), LAMBDA r :
    IF r.ok /\ Len(t) > 0 /\ t[1] = chMinus THEN Ok(-r.v) ELSE r)))

(***************************************************************************)
(* base64 (Lib/base64.py over Modules/binascii.c, non-strict mode).        *)
(***************************************************************************)
\* table_a2b_base64: the 6-bit value of a standard-alphabet character, 64 for
\* every other byte.
B64Value(c) ==
  IF c \in chUpperA..chUpperZ THEN c - chUpperA
  ELSE IF c \in chLowerA..chLowerZ THEN c - chLowerA + 26
  ELSE IF IsDigit(c) THEN c - chZero + 52
  ELSE IF c = chPlus THEN 62
  ELSE IF c = chSlash THEN 63
  ELSE 64

IsB64(c) == B64Value(c) < 64

\* binascii.a2b_base64(data).  The decoder reads data left to right, keeping
\* quad_pos (alphabet characters read, modulo 4) and pads (the '=' read since
\* the last alphabet character while quad_pos >= 2); other characters are
\* discarded.  It stops at the first '=' with quad_pos >= 2 and
\* quad_pos + pads >= 4, and raises binascii.Error when the data ends with
\* quad_pos # 0.  Every alphabet character read after the first of a quad
\* completes one byte.
a2b_byte(chars, j) ==
  LET v(k) == B64Value(chars[k])
      q == 4 * ((j - 1) \div 3)
      r == (j - 1) % 3
  IN  IF r = 0 THEN ((v(q + 1) * 4) + (v(q + 2) \div 16)) % 256
      ELSE IF r = 1 THEN (((v(q + 2) % 16) * 16) + (v(q + 3) \div 4)) % 256
      ELSE (((v(q + 3) % 4) * 64) + v(q + 4)) % 256

\* the positions of the '=' at which the decoder stops, given for each '='
\* the number of alphabet characters before it
a2b_stops(eqs, before) ==
  LET quad_pos(pos) == before[pos] % 4
      pads(pos) == Cardinality({ k \in eqs : k <= pos /\ before[k] = before[pos] })
  IN  { pos \in eqs : quad_pos(pos) >= 2 /\ quad_pos(pos) + pads(pos) >= 4 }

a2b_base64(data) ==
  With(Len(data), LAMBDA n :
  With({ pos \in 1..n : data[pos] = chEquals }, LAMBDA eqs :
  With(a2b_stops(eqs, [pos \in eqs |->
                        Cardinality({ k \in 1..(pos - 1) : IsB64(data[k]) })]),
       LAMBDA stops :
  With(SelectSeq(Slice(data, 1, (IF stops = {} THEN n + 1 ELSE Min(stops)) - 1), IsB64),
       LAMBDA chars :
  With(Len(chars), LAMBDA m :
    IF stops = {} /\ m % 4 # 0 THEN Raised
    ELSE Ok(Seq1([j \in 1..(((m \div 4) * 3) + (IF m % 4 = 0 THEN 0 ELSE (m % 4) - 1))
                   |-> a2b_byte(chars, j)])))))))

\* _bytes_from_decode_data(s) for a str: ValueError unless s is ASCII.
IsAscii(s) == \A pos \in 1..Len(s) : s[pos] < 128

\* base64.b64decode(s) for a str s
b64decode(s) == IF IsAscii(s) THEN a2b_base64(s) ELSE Raised

\* base64.b64decode(content) for a bytes object
b64decode_bytes(data) == a2b_base64(data)

\* base64.urlsafe_b64decode(s): '-' and '_' are translated to '+' and '/'.
urlsafe_b64decode(s) ==
  IF IsAscii(s)
  THEN a2b_base64(Seq1([pos \in 1..Len(s) |->
                          IF s[pos] = chMinus THEN chPlus
                          ELSE IF s[pos] = chUnder THEN chSlash ELSE s[pos]]))
  ELSE Raised

(***************************************************************************)
(* bytes.decode("utf-8"), strict or with errors="replace".                 *)
(***************************************************************************)
IsCont(b) == b \in 128..191

\* For a lead byte b: <<number of continuation bytes, the range the first of
\* them must lie in>>; <<0, {}>> for a byte that cannot start a sequence.
Utf8Lead(b) ==
  IF b \in 194..223 THEN << 1, 128..191 >>
  ELSE IF b = 224 THEN << 2, 160..191 >>
  ELSE IF b \in (225..236) \cup (238..239) THEN << 2, 128..191 >>
  ELSE IF b = 237 THEN << 2, 128..159 >>
  ELSE IF b = 240 THEN << 3, 144..191 >>
  ELSE IF b \in 241..243 THEN << 3, 128..191 >>
  ELSE IF b = 244 THEN << 3, 128..143 >>
  ELSE << 0, {} >>

\* How many of the continuation bytes the lead byte at pos needs are there.
RECURSIVE Utf8Have(_, _, _, _)
Utf8Have(bs, pos, k, need) ==
  IF k >= need \/ pos + k + 1 > Len(bs) THEN k
  ELSE IF (IF k = 0 THEN bs[pos + 1] \in Utf8Lead(bs[pos])[2] ELSE IsCont(bs[pos + k + 1]))
       THEN Utf8Have(bs, pos, k + 1, need)
       ELSE k

Utf8Point(bs, pos, need) ==
  IF need = 1 THEN ((bs[pos] % 32) * 64) + (bs[pos + 1] % 64)
  ELSE IF need = 2
  THEN ((bs[pos] % 16) * 4096) + ((bs[pos + 1] % 64) * 64) + (bs[pos + 2] % 64)
  ELSE ((bs[pos] % 8) * 262144) + ((bs[pos + 1] % 64) * 4096)
       + ((bs[pos + 2] % 64) * 64) + (bs[pos + 3] % 64)

\* Whether the byte at pos is in place: an ASCII byte, a lead byte followed by
\* the continuation bytes it needs, or a continuation byte of such a lead.
Utf8WellFormedAt(bs, pos) ==
  IF bs[pos] < 128 THEN TRUE
  ELSE IF IsCont(bs[pos])
  THEN \E d \in 1..3 : /\ pos - d >= 1
                       /\ Utf8Lead(bs[pos - d])[1] >= d
                       /\ \A e \in 1..(d - 1) : IsCont(bs[pos - e])
  ELSE LET need == Utf8Lead(bs[pos])[1]
       IN  need > 0 /\ Utf8Have(bs, pos, 0, need) = need

\* bs.decode("utf-8"): UnicodeDecodeError unless every byte is in place.
decode_utf8(bs) ==
  IF \A pos \in 1..Len(bs) : bs[pos] < 128 THEN Ok(bs)
  ELSE IF \E pos \in 1..Len(bs) : ~Utf8WellFormedAt(bs, pos) THEN Raised
  ELSE With(SelectSeq([pos \in 1..Len(bs) |-> pos], LAMBDA pos : ~IsCont(bs[pos])),
            LAMBDA starts :
         Ok(Seq1([k \in 1..Len(starts) |->
                    IF bs[starts[k]] < 128 THEN bs[starts[k]]
                    ELSE Utf8Point(bs, starts[k], Utf8Lead(bs[starts[k]])[1])])))

\* In the input of decode_utf8_replace an item RawBase + c stands for the
\* character c of a str, which is no byte and passes through.
RawBase == 2097152 * 2

\* bs.decode("utf-8", "replace"): each maximal ill-formed part becomes U+FFFD.
RECURSIVE utf8_replace(_, _, _)
utf8_replace(bs, pos, out) ==
  LET nxt == FirstWhere(bs, pos, LAMBDA b : b >= 128)
  IN  IF nxt > Len(bs) THEN out \o Slice(bs, pos, Len(bs))
      ELSE
        LET need == Utf8Lead(bs[nxt])[1]
            have == IF need = 0 THEN 0 ELSE Utf8Have(bs, nxt, 0, need)
            head == out \o Slice(bs, pos, nxt - 1)
        IN  IF bs[nxt] >= RawBase
            THEN utf8_replace(bs, nxt + 1, Append(head, bs[nxt] - RawBase))
            ELSE IF need > 0 /\ have = need
            THEN utf8_replace(bs, nxt + need + 1, Append(head, Utf8Point(bs, nxt, need)))
            ELSE utf8_replace(bs, nxt + have + 1, Append(head, chReplacement))
decode_utf8_replace(bs) == utf8_replace(bs, 1, <<>>)

(***************************************************************************)
(* SSRToClashConverter._safe_b64decode                                     *)
(***************************************************************************)
\* bs.decode("utf-8") of the bytes a base64 decoder answered, if it did
decode_result(decoded) == IF decoded.ok THEN decode_utf8(decoded.v) ELSE Raised

safe_b64decode(data) ==
  With(4 - (Len(data) % 4), LAMBDA padding :
  With(IF padding # 0 /\ padding < 4
       THEN data \o Seq1([pos \in 1..padding |-> chEquals])
       ELSE data, LAMBDA padded :
  With(decode_result(urlsafe_b64decode(padded)), LAMBDA text1 :
    IF text1.ok THEN text1.v
    ELSE With(decode_result(b64decode(padded)), LAMBDA text2 :
           IF text2.ok THEN text2.v ELSE <<>>))))

\* base64.b64decode(s + "==").decode("utf-8"), as parse_ssr_url decodes.
b64decode_pad2(s) == decode_result(b64decode(s \o << chEquals, chEquals >>))

(***************************************************************************)
(* urllib.parse                                                            *)
(***************************************************************************)
\* The value of a hexadecimal digit, 16 for any other character.
HexValue(c) ==
  IF IsDigit(c) THEN c - chZero
  ELSE IF c \in chUpperA..chUpperF THEN c - chUpperA + 10
  ELSE IF c \in chLowerA..chLowerF THEN c - chLowerA + 10
  ELSE 16

\* unquote(string): in each run of ASCII characters the %xx escapes become
\* bytes, and the run is decoded as UTF-8 with replacement; the other
\* characters stay.
unquote(s) ==
  IF ~Contains(s, << chPercent >>) THEN s
  ELSE
    LET n == Len(s)
        esc(pos) == /\ pos >= 1
                  /\ pos + 2 <= n
                  /\ s[pos] = chPercent
                  /\ HexValue(s[pos + 1]) < 16
                  /\ HexValue(s[pos + 2]) < 16
        keep == SelectSeq([pos \in 1..n |-> pos], LAMBDA pos : ~esc(pos - 1) /\ ~esc(pos - 2))
    IN  decode_utf8_replace(Seq1(
          [k \in 1..Len(keep) |->
             LET pos == keep[k]
             IN  IF esc(pos) THEN (HexValue(s[pos + 1]) * 16) + HexValue(s[pos + 2])
                 ELSE IF s[pos] >= 128 THEN RawBase + s[pos]
                 ELSE s[pos]]))

\* s.replace('+', ' ')
PlusToSpace(s) ==
  Seq1([pos \in 1..Len(s) |-> IF s[pos] = chPlus THEN chSpace ELSE s[pos]])

\* parse_qsl(qs): the <<name, value>> pairs of the fields that hold an '='
\* and a non-blank value, in order.
RECURSIVE qsl_fields(_, _)
qsl_fields(fields, pos) ==
  IF pos > Len(fields) THEN <<>>
  ELSE
    With(fields[pos], LAMBDA name_value :
    With(qsl_fields(fields, pos + 1), LAMBDA rest :
      IF ~Contains(name_value, << chEquals >>) THEN rest
      ELSE With(split1(name_value, << chEquals >>), LAMBDA nv :
             IF Len(nv[2]) = 0 THEN rest
             ELSE << << unquote(PlusToSpace(nv[1])), unquote(PlusToSpace(nv[2])) >> >>
                  \o rest)))
parse_qsl(qs) == IF Len(qs) = 0 THEN <<>> ELSE qsl_fields(split(qs, << chAmp >>), 1)

\* None, and a str value, as Python objects
None == [t |-> "none"]
PyStr(s) == [t |-> "str", s |-> s]
PyInt(n) == [t |-> "int", n |-> n]

\* params.get(key, [None])[0] for params = parse_qs(qs), given parse_qsl(qs):
\* the first value given for key.
qs_get(pairs, key) ==
  With({ pos \in 1..Len(pairs) : pairs[pos][1] = key }, LAMBDA hits :
    IF hits = {} THEN None ELSE PyStr(pairs[Min(hits)][2]))

(***************************************************************************)
(* Python objects.  A dict is a function from the keys the converter uses  *)
(* to values; a key the dict does not hold maps to Absent.                 *)
(***************************************************************************)
Absent == [t |-> "absent"]
PyBool(b) == [t |-> "bool", b |-> b]

Keys == { "name", "type", "server", "port", "uuid", "alterId", "cipher",
          "password", "tls", "network", "ws-opts", "protocol", "obfs",
          "protocol-param", "obfs-param",
          "method", "obfs_param", "protocol_param",
          "path", "headers", "Host" }

\* {}
EmptyDict == [k \in Keys |-> Absent]

\* the dict holding exactly the given <<key, value>> pairs
Dict(pairs) ==
  [k \in Keys |->
     IF \E pos \in 1..Len(pairs) : pairs[pos][1] = k
     THEN pairs[CHOOSE pos \in 1..Len(pairs) : pairs[pos][1] = k][2]
     ELSE Absent]

\* bool(v)
Truthy(v) ==
  IF v.t = "str" THEN Len(v.s) > 0
  ELSE IF v.t = "int" THEN v.n # 0
  ELSE IF v.t = "bool" THEN v.b
  ELSE IF v.t = "dict" THEN v.d # EmptyDict
  ELSE FALSE

\* a or b
OrElse(a, b) == IF Truthy(a) THEN a ELSE b

\* format(v) inside an f-string, for the scalar values
Format(v) ==
  IF v.t = "str" THEN v.s
  ELSE IF v.t = "int" THEN str(v.n)
  ELSE IF v.t = "bool" THEN (IF v.b THEN sTrue
                                    ELSE sFalse)
  ELSE sNone

\* int(v) for a Python object: TypeError for None
int_of(v) ==
  IF v.t = "int" THEN Ok(v.n)
  ELSE IF v.t = "str" THEN int(v.s)
  ELSE IF v.t = "bool" THEN Ok(IF v.b THEN 1 ELSE 0)
  ELSE Raised

\* s.lower() on the ASCII letters
lower(s) ==
  Seq1([pos \in 1..Len(s) |-> IF s[pos] \in chUpperA..chUpperZ THEN s[pos] + 32 ELSE s[pos]])

(***************************************************************************)
(* json.loads, for the documents the vmess grammar allows: one object      *)
(* whose values are strings without escapes, integers, null, true or       *)
(* false, or one such scalar.  A document with an escape, a fraction, an   *)
(* array or a nested object is outside this model (answered as Raised).    *)
(* A parse result is [ok, v, next]: the value and the position after it.   *)
(***************************************************************************)
JsonWs == { 9, 10, 13, 32 }

json_skip(s, pos) == FirstWhere(s, pos, LAMBDA c : c \notin JsonWs)

At(v, next) == [ok |-> TRUE, v |-> v, next |-> next]

\* the string literal whose opening quote is at pos
json_string(s, pos) ==
  With(FirstWhere(s, pos + 1, LAMBDA c : c = chQuote \/ c = chBackslash \/ c < 32),
       LAMBDA j :
    IF j > Len(s) \/ s[j] # chQuote THEN Raised
    ELSE At(PyStr(Slice(s, pos + 1, j - 1)), j + 1))

\* the integer literal that starts at pos
json_number(s, pos) ==
  With(IF s[pos] = chMinus THEN pos + 1 ELSE pos, LAMBDA d :
  With(FirstWhere(s, d, LAMBDA c : ~IsDigit(c)), LAMBDA j :
    IF j = d THEN Raised
    ELSE IF j - d > 1 /\ s[d] = chZero THEN Raised
    ELSE IF j <= Len(s) /\ s[j] \in { chDot, chLowerE, chUpperE } THEN Raised
    ELSE At(PyInt(int(Slice(s, pos, j - 1)).v), j)))

json_literals ==
  << << Str(<<"n","u","l","l">>), None >>,
     << Str(<<"t","r","u","e">>), PyBool(TRUE) >>,
     << Str(<<"f","a","l","s","e">>), PyBool(FALSE) >> >>

json_scalar(s, pos) ==
  IF pos > Len(s) THEN Raised
  ELSE IF s[pos] = chQuote THEN json_string(s, pos)
  ELSE IF s[pos] = chMinus \/ IsDigit(s[pos]) THEN json_number(s, pos)
  ELSE With({ k \in 1..3 : MatchAt(s, json_literals[k][1], pos) }, LAMBDA lits :
         IF lits = {} THEN Raised
         ELSE At(json_literals[Min(lits)][2], pos + Len(json_literals[Min(lits)][1])))

\* the members of an object, from the first key at pos: the <<key, value>>
\* pairs in document order.
RECURSIVE json_members(_, _, _)
json_members(s, pos, acc) ==
  IF pos > Len(s) \/ s[pos] # chQuote THEN Raised
  ELSE
    With(json_string(s, pos), LAMBDA key :
      IF ~key.ok THEN Raised
      ELSE
    With(json_skip(s, key.next), LAMBDA c :
      IF c > Len(s) \/ s[c] # chColon THEN Raised
      ELSE
    With(json_scalar(s, json_skip(s, c + 1)), LAMBDA val :
      IF ~val.ok THEN Raised
      ELSE
    With(json_skip(s, val.next), LAMBDA e :
      IF e > Len(s) THEN Raised
      ELSE IF s[e] = chRBrace THEN At(Append(acc, << key.v.s, val.v >>), e + 1)
      ELSE IF s[e] = chComma
      THEN json_members(s, json_skip(s, e + 1), Append(acc, << key.v.s, val.v >>))
      ELSE Raised))))

\* the value that starts at pos: an object or a scalar
json_value(text, pos) ==
  IF pos > Len(text) THEN Raised
  ELSE IF text[pos] = chLBrace
  THEN With(json_skip(text, pos + 1), LAMBDA j :
         IF j <= Len(text) /\ text[j] = chRBrace
         THEN At(<<>>, j + 1)
         ELSE json_members(text, j, <<>>))
  ELSE json_scalar(text, pos)

\* json.loads(text): Ok([t |-> "object", items |-> pairs]), Ok(scalar) or Raised
json_loads(text) ==
  With(json_skip(text, 1), LAMBDA pos :
  With(json_value(text, pos), LAMBDA r :
    IF r.ok /\ json_skip(text, r.next) > Len(text)
    THEN Ok(IF text[pos] = chLBrace THEN [t |-> "object", items |-> r.v] ELSE r.v)
    ELSE Raised))

\* data.get(key, default) on a loaded JSON object: the last member named key
json_get(data, key, default) ==
  With({ pos \in 1..Len(data.items) : data.items[pos][1] = key }, LAMBDA hits :
    IF hits = {} THEN default ELSE data.items[Max(hits)][2])

(***************************************************************************)
(* The three link parsers.  Each returns a dict, {} (EmptyDict) for a link *)
(* it drops: an early return, or an exception caught by its try block.     *)
(***************************************************************************)
sVmess == Str(<<"v","m","e","s","s",":","/","/">>)
sSsr   == Str(<<"s","s","r",":","/","/">>)
sSs    == Str(<<"s","s",":","/","/">>)
sWs    == Str(<<"w","s">>)
sTls   == Str(<<"t","l","s">>)
sTcp   == Str(<<"t","c","p">>)
sAuto  == Str(<<"a","u","t","o">>)
sDIRECT == Str(<<"D","I","R","E","C","T">>)
sAdd   == Str(<<"a","d","d">>)
sPort  == Str(<<"p","o","r","t">>)

\* lines 121-126: ws_opts, from path and host_header
vmess_ws_opts(path, host_header) ==
  With(Dict(IF Truthy(host_header) THEN << << "Host", host_header >> >> ELSE <<>>),
       LAMBDA headers :
    Dict((IF Truthy(path) THEN << << "path", path >> >> ELSE <<>>)
         \o (IF headers # EmptyDict
             THEN << << "headers", [t |-> "dict", d |-> headers] >> >>
             ELSE <<>>)))

\* lines 105-146 of parse_vmess_url: the descriptor of a loaded JSON object
vmess_proxy(data) ==
  With(int_of(json_get(data, sPort, PyInt(0))), LAMBDA port :
    IF ~port.ok THEN EmptyDict                          \* int(): ValueError, TypeError
    ELSE
  With(int_of(OrElse(json_get(data, sAid, PyInt(0)), PyInt(0))), LAMBDA alter_id :
    IF ~alter_id.ok THEN EmptyDict                      \* int(): ValueError
    ELSE
  With(OrElse(json_get(data, sTls, None), PyStr(<<>>)), LAMBDA tls :
    IF tls.t # "str" THEN EmptyDict                     \* no .lower: AttributeError
    ELSE
  With(OrElse(json_get(data, sNet, None), PyStr(sTcp)), LAMBDA network :
  With(vmess_ws_opts(OrElse(json_get(data, sPath, None), PyStr(<<>>)),
                     OrElse(json_get(data, sHost, None), PyStr(<<>>))),
       LAMBDA ws_opts :
    Dict(<< << "name", OrElse(json_get(data, sPs, None),
                              PyStr(Format(json_get(data, sAdd, PyStr(<<>>)))
                                    \o << chMinus >>
                                    \o Format(json_get(data, sPort, PyStr(<<>>))))) >>,
            << "type", PyStr(sTypeVmess) >>,
            << "server", json_get(data, sAdd, None) >>,
            << "port", PyInt(port.v) >>,
            << "uuid", json_get(data, sId, None) >>,
            << "alterId", PyInt(alter_id.v) >>,
            << "cipher", OrElse(json_get(data, sScy, None), PyStr(sAuto)) >> >>
         \o (IF lower(tls.s) = sTls THEN << << "tls", PyBool(TRUE) >> >> ELSE <<>>)
         \o << << "network", network >> >>
         \o (IF network = PyStr(sWs) /\ ws_opts # EmptyDict
             THEN << << "ws-opts", [t |-> "dict", d |-> ws_opts] >> >>
             ELSE <<>>)))))))

\* SSRToClashConverter.parse_vmess_url
parse_vmess_url(vmess_url) ==
  IF ~startswith(vmess_url, sVmess) THEN EmptyDict
  ELSE
    With(safe_b64decode(Slice(vmess_url, Len(sVmess) + 1, Len(vmess_url))),
         LAMBDA decoded :
      IF Len(decoded) = 0 THEN EmptyDict
      ELSE
    With(json_loads(decoded), LAMBDA loaded :
      IF ~loaded.ok THEN EmptyDict                      \* json.JSONDecodeError
      ELSE IF loaded.v.t # "object" THEN EmptyDict      \* no .get: AttributeError
      ELSE vmess_proxy(loaded.v)))

\* lines 180-211 of parse_ss_url: the descriptor, given the name and
\* <<userinfo, server_part>>
ss_proxy(name, both) ==
  With(IF Contains(both[1], << chColon >>) THEN both[1] ELSE safe_b64decode(both[1]),
       LAMBDA userinfo :
    IF ~Contains(userinfo, << chColon >>) THEN EmptyDict
    ELSE IF ~Contains(both[2], << chColon >>) THEN EmptyDict
    ELSE
  With(split1(userinfo, << chColon >>), LAMBDA method_password :
  With(rsplit1(both[2], << chColon >>), LAMBDA server_port :
  With(int(server_port[2]), LAMBDA port :
    IF ~port.ok THEN EmptyDict                          \* int(): ValueError
    ELSE Dict(<< << "name", PyStr(IF Len(name) = 0
                                  THEN server_port[1] \o << chColon >> \o str(port.v)
                                  ELSE name) >>,
                 << "type", PyStr(sTypeSs) >>,
                 << "server", PyStr(server_port[1]) >>,
                 << "port", PyInt(port.v) >>,
                 << "cipher", PyStr(method_password[1]) >>,
                 << "password", PyStr(method_password[2]) >> >>)))))

\* SSRToClashConverter.parse_ss_url
parse_ss_url(ss_url) ==
  IF ~startswith(ss_url, sSs) THEN EmptyDict
  ELSE
    With(Slice(ss_url, Len(sSs) + 1, Len(ss_url)), LAMBDA raw0 :
    With(IF Contains(raw0, << chHash >>)
         THEN split1(raw0, << chHash >>) ELSE << raw0, <<>> >>, LAMBDA raw_name :
    With(IF Contains(raw_name[1], << chQuery >>)
         THEN split1(raw_name[1], << chQuery >>)[1] ELSE raw_name[1], LAMBDA raw :
    With(IF Contains(raw, << chAt >>) THEN raw ELSE safe_b64decode(raw),
         LAMBDA located :
      IF ~Contains(located, << chAt >>) THEN EmptyDict
      ELSE ss_proxy(IF Contains(raw0, << chHash >>) THEN unquote(raw_name[2]) ELSE <<>>,
                    split1(located, << chAt >>))))))

\* lines 244-259 of parse_ssr_url: the query value of key, base64-decoded when
\* it is given and non-empty, else Ok(default)
ssr_param(params, key, default) ==
  With(qs_get(params, key), LAMBDA value :
    IF Truthy(value) THEN b64decode_pad2(value.s) ELSE Ok(default))

\* lines 233-271 of parse_ssr_url, given server_info, the port and the query
ssr_config_of(server_info, port, params) ==
  With(b64decode_pad2(server_info[6]), LAMBDA password0 :
    IF ~password0.ok THEN EmptyDict
    ELSE
  With(ssr_param(params, sPassword, password0.v), LAMBDA password :
    IF ~password.ok THEN EmptyDict
    ELSE
  With(ssr_param(params, sObfsparam, <<>>), LAMBDA obfs_param :
    IF ~obfs_param.ok THEN EmptyDict
    ELSE
  With(ssr_param(params, sProtoparam, <<>>), LAMBDA protocol_param :
    IF ~protocol_param.ok THEN EmptyDict
    ELSE
  With(ssr_param(params, sRemarks, <<>>), LAMBDA remarks :
    IF ~remarks.ok THEN EmptyDict
    ELSE Dict(<< << "server", PyStr(server_info[1]) >>,
                 << "port", PyInt(port) >>,
                 << "password", PyStr(password.v) >>,
                 << "method", PyStr(server_info[4]) >>,
                 << "protocol", PyStr(server_info[3]) >>,
                 << "obfs", PyStr(server_info[5]) >>,
                 << "obfs_param", PyStr(obfs_param.v) >>,
                 << "protocol_param", PyStr(protocol_param.v) >>,
                 << "name", PyStr(IF Len(remarks.v) > 0 THEN remarks.v
                                  ELSE server_info[1] \o << chColon >> \o str(port)) >>
              >>))))))

\* SSRToClashConverter.parse_ssr_url: every exception is caught and answers {}
parse_ssr_url(ssr_url) ==
  With(b64decode_pad2(IF startswith(ssr_url, sSsr)
                      THEN Slice(ssr_url, 7, Len(ssr_url)) ELSE ssr_url),
       LAMBDA decoded :
    IF ~decoded.ok THEN EmptyDict                       \* binascii.Error, UnicodeDecodeError
    ELSE
  With(split(decoded.v, << chSlash, chQuery >>), LAMBDA parts :
    IF Len(parts) # 2 THEN EmptyDict
    ELSE
  With(split(parts[1], << chColon >>), LAMBDA server_info :
    IF Len(server_info) < 6 THEN EmptyDict
    ELSE
  With(int(server_info[2]), LAMBDA port :
    IF ~port.ok THEN EmptyDict                          \* int(): ValueError
    ELSE ssr_config_of(server_info, port.v, parse_qsl(parts[2]))))))

\* [p.get("name", "") for p in self.clash_config["proxies"]]
proxy_names(list) == Seq1([k \in 1..Len(list) |-> list[k]["name"]])

InSeq(x, seq) == \E pos \in 1..Len(seq) : seq[pos] = x

\* f"{name}_{port}"
name_port(name, port) == PyStr(Format(name) \o << chUnder >> \o Format(port))

\* ssr_to_clash_proxy, were a colliding name suffixed with the number of
\* descriptors held instead of the port
ssr_to_clash_proxy_by_count(ssr_config, existing) ==
  IF ssr_config = EmptyDict THEN EmptyDict
  ELSE
    LET name == IF InSeq(ssr_config["name"], proxy_names(existing))
                THEN name_port(ssr_config["name"], PyInt(Len(existing)))
                ELSE ssr_config["name"]
    IN  Dict(<< << "name", name >>,
                << "type", PyStr(sTypeSsr) >>,
                << "server", ssr_config["server"] >>,
                << "port", ssr_config["port"] >>,
                << "cipher", ssr_config["method"] >>,
                << "password", ssr_config["password"] >>,
                << "protocol", ssr_config["protocol"] >>,
                << "obfs", ssr_config["obfs"] >> >>
             \o (IF Truthy(ssr_config["protocol_param"])
                 THEN << << "protocol-param", ssr_config["protocol_param"] >> >>
                 ELSE <<>>)
             \o (IF Truthy(ssr_config["obfs_param"])
                 THEN << << "obfs-param", ssr_config["obfs_param"] >> >>
                 ELSE <<>>))

\* SSRToClashConverter.ssr_to_clash_proxy, given self.clash_config["proxies"]
ssr_to_clash_proxy(ssr_config, existing) ==
  IF ssr_config = EmptyDict THEN EmptyDict
  ELSE
    LET name == IF InSeq(ssr_config["name"], proxy_names(existing))
                THEN name_port(ssr_config["name"], ssr_config["port"])
                ELSE ssr_config["name"]
    IN  Dict(<< << "name", name >>,
                << "type", PyStr(sTypeSsr) >>,
                << "server", ssr_config["server"] >>,
                << "port", ssr_config["port"] >>,
                << "cipher", ssr_config["method"] >>,
                << "password", ssr_config["password"] >>,
                << "protocol", ssr_config["protocol"] >>,
                << "obfs", ssr_config["obfs"] >> >>
             \o (IF Truthy(ssr_config["protocol_param"])
                 THEN << << "protocol-param", ssr_config["protocol_param"] >> >>
                 ELSE <<>>)
             \o (IF Truthy(ssr_config["obfs_param"])
                 THEN << << "obfs-param", ssr_config["obfs_param"] >> >>
                 ELSE <<>>))

(***************************************************************************)
(* re.findall(r"(vmess://[^\s]+|ssr://[^\s]+|ss://[^\s]+)", content)       *)
(***************************************************************************)
\* the end of the run of non-space characters that starts at pos
run_end(s, pos) == FirstWhere(s, pos, IsSpace) - 1

\* whether scheme, followed by a non-space character, is at pos
scheme_at(s, scheme, pos) ==
  /\ MatchAt(s, scheme, pos)
  /\ pos + Len(scheme) <= Len(s)
  /\ ~IsSpace(s[pos + Len(scheme)])

\* the matches from position pos on, leftmost first, none overlapping
RECURSIVE findall_from(_, _)
findall_from(string, pos) ==
  LET hits == { k \in pos..Len(string) :
                  \E scheme \in { sVmess, sSsr, sSs } : scheme_at(string, scheme, k) }
      k == Min(hits)
  IN  IF hits = {} THEN <<>>
      ELSE << Slice(string, k, run_end(string, k)) >>
           \o findall_from(string, run_end(string, k) + 1)
findall(string) == findall_from(string, 1)

(***************************************************************************)
(* The inputs.  base64.b64encode builds the encoded parts of the links and *)
(* the wrapped subscription bodies.                                        *)
(***************************************************************************)
B64Char(v) ==
  IF v < 26 THEN chUpperA + v
  ELSE IF v < 52 THEN chLowerA + (v - 26)
  ELSE IF v < 62 THEN chZero + (v - 52)
  ELSE IF v = 62 THEN chPlus
  ELSE chSlash

\* base64.b64encode(bs)
b64encode(bs) ==
  LET n == Len(bs)
      at(k) == IF k <= n THEN bs[k] ELSE 0
      char(j) ==
        LET g == 3 * ((j - 1) \div 4)
            r == (j - 1) % 4
        IN  IF r = 0 THEN B64Char(at(g + 1) \div 4)
            ELSE IF r = 1 THEN B64Char(((at(g + 1) % 4) * 16) + (at(g + 2) \div 16))
            ELSE IF r = 2
            THEN (IF g + 2 > n THEN chEquals
                  ELSE B64Char(((at(g + 2) % 16) * 4) + (at(g + 3) \div 64)))
            ELSE (IF g + 3 > n THEN chEquals ELSE B64Char(at(g + 3) % 64))
  IN  Seq1([j \in 1..(4 * ((n + 2) \div 3)) |-> char(j)])

\* b64encode(bs) without its trailing padding, as most producers send it
b64encode_nopad(bs) == SelectSeq(b64encode(bs), LAMBDA c : c # chEquals)

\* ss://a:p@h:80#N
LinkSs == Str(<<"s","s",":","/","/","a",":","p","@","h",":","8","0","#","N">>)
\* ss://<base64(a:p)>@h:70000 : encoded userinfo, port 70000, no remark
LinkSsUserinfo ==
  sSs \o b64encode(Str(<<"a",":","p">>)) \o Str(<<"@","h",":","7","0","0","0","0">>)
\* ss://<base64(a:p@h)> : fully encoded, no padding, no port
LinkSsEncoded == sSs \o b64encode_nopad(Str(<<"a",":","p","@","h">>))

\* vmess://<base64(JSON)> with a websocket transport
LinkVmess ==
  sVmess \o b64encode(
    Str(<<"{","\"","p","s","\"",":","\"","N","\"",",","\"","a","d","d","\"",
        ":","\"","h","\"",",","\"","p","o","r","t","\"",":","\"","4","4",
        "3","\"",",","\"","i","d","\"",":","\"","u","\"",",","\"","n","e",
        "t","\"",":","\"","w","s","\"",",","\"","p","a","t","h","\"",":",
        "\"","/","p","\"",",","\"","h","o","s","t","\"",":","\"","g","\"",
        ",","\"","t","l","s","\"",":","\"","t","l","s","\"","}">>))
\* vmess://<base64(JSON)> whose JSON holds no add, no port and no remark
LinkVmessBare ==
  sVmess \o b64encode_nopad(
    Str(<<"{","\"","i","d","\"",":","\"","u","\"","}">>))
\* vmess://<base64(truncated JSON)>
LinkVmessBadJson ==
  sVmess \o b64encode_nopad(
    Str(<<"{","\"","p","s","\"",":","\"","N","\"">>))

sPw == b64encode_nopad(Str(<<"p","w">>))
sRemarksN == Str(<<"r","e","m","a","r","k","s","=">>) \o b64encode_nopad(Str(<<"N">>))
SsrLink(port, query) ==
  sSsr \o b64encode_nopad(Str(<<"h",":">>) \o port \o Str(<<":","o",":","a",":","p",":">>)
                          \o sPw \o query)

\* ssr://<base64(h:80:o:a:p:<pw>/?)> : no parameters, no remark
LinkSsr == SsrLink(Str(<<"8","0">>), Str(<<"/","?">>))
\* the remark of LinkSs and LinkVmess, port 81, obfsparam and protoparam given
LinkSsrParams ==
  SsrLink(Str(<<"8","1">>),
          Str(<<"/","?","o","b","f","s","p","a","r","a","m","=">>) \o b64encode_nopad(Str(<<"x">>))
          \o Str(<<"&","p","r","o","t","o","p","a","r","a","m","=">>) \o b64encode_nopad(Str(<<"y">>))
          \o << chAmp >> \o sRemarksN)
\* obfsparam=Q is no base64 (one character more than a multiple of 4)
LinkSsrBadObfs ==
  SsrLink(Str(<<"8","2">>), Str(<<"/","?","o","b","f","s","p","a","r","a","m","=","Q","&">>) \o sRemarksN)
\* remarks=/w decodes to the byte FF, which is no UTF-8
LinkSsrBadRemarks ==
  SsrLink(Str(<<"8","3">>), Str(<<"/","?","r","e","m","a","r","k","s","=","/","w">>))

Corpus ==
  { LinkSs, LinkSsUserinfo, LinkSsEncoded,
    LinkVmess, LinkVmessBare, LinkVmessBadJson,
    LinkSsr, LinkSsrParams, LinkSsrBadObfs, LinkSsrBadRemarks }

\* at most MaxLinks links in a subscription, wrapped in base64 at most
\* MaxWrap times by its producer
MaxLinks == 2
MaxWrap == 2

\* what may precede the first link: nothing, or a comment line
Preambles == { <<>>, Str(<<"#"," ","s","u","b">>) \o << chNL >> }

\* the links, one per line
RECURSIVE JoinLines(_)
JoinLines(links) ==
  IF Len(links) = 0 THEN <<>>
  ELSE Head(links) \o << chNL >> \o JoinLines(Tail(links))

RECURSIVE Wrap(_, _)
Wrap(k, text) == IF k = 0 THEN text ELSE Wrap(k - 1, b64encode(text))

Subscriptions == UNION { [1..n -> Corpus] : n \in 0..MaxLinks }

\* the bodies a subscription server may answer with (ASCII: text.encode())
Bodies ==
  { Wrap(k, pre \o JoinLines(links)) :
      k \in 0..MaxWrap, pre \in Preambles, links \in Subscriptions }

(***************************************************************************)
(* The converter: one run of main() on one subscription.                   *)
(***************************************************************************)
VARIABLES
  response,              \* what urlopen answers: [ok, body]; ~ok: it raised
  pc,                    \* where the run is
  subscription_content,  \* convert_subscription_to_clash: the fetched text
  unwrapped,             \* whether line 322 called _safe_b64decode
  content,               \* the text the links are extracted from
  urls,                  \* the extracted links
  i,                     \* the loop of line 334: the 1-based index of the next link
  proxies,               \* self.clash_config["proxies"]
  groups,                \* the "proxies" of proxy-groups[0] and proxy-groups[1]
  result,                \* what convert_subscription_to_clash returned
  stdout,                \* the outcome messages printed
  exit_code,             \* the process's exit status, -1 while it runs
  dispatched             \* per link handled: the link, what its parser returned,
                         \* the descriptor it led to, len(proxies) before it

vars == << response, pc, subscription_content, unwrapped, content, urls, i,
           proxies, groups, result, stdout, exit_code, dispatched >>

Pending == [t |-> "pending"]

\* SSRToClashConverter.__init__, and main() up to its call of the converter
Init ==
  /\ response \in ({ [ok |-> TRUE, body |-> b] : b \in Bodies }
                   \cup { [ok |-> FALSE, body |-> <<>>] })
  /\ pc = "fetch"
  /\ subscription_content = <<>>
  /\ unwrapped = FALSE
  /\ content = <<>>
  /\ urls = <<>>
  /\ i = 1
  /\ proxies = <<>>
  /\ groups = << <<>>, <<>> >>
  /\ result = Pending
  /\ stdout = <<>>
  /\ exit_code = -1
  /\ dispatched = <<>>

\* SSRToClashConverter.fetch_ssr_subscription: "" when urlopen or the final
\* decode raises, else the body base64-decoded if that works, else the body.
fetch_ssr_subscription(resp) ==
  IF ~resp.ok THEN <<>>
  ELSE
    With(decode_result(b64decode_bytes(resp.body)), LAMBDA decoded_content :
      IF decoded_content.ok THEN decoded_content.v
      ELSE With(decode_utf8(resp.body), LAMBDA raw :
             IF raw.ok THEN raw.v ELSE <<>>))

\* lines 310-312
Fetch ==
  /\ pc = "fetch"
  /\ subscription_content' = fetch_ssr_subscription(response)
  /\ IF Len(subscription_content') = 0
     THEN /\ result' = PyStr(<<>>)
          /\ pc' = "returned"
          /\ stdout' = IF response.ok THEN stdout ELSE Append(stdout, "fetch failed")
     ELSE /\ pc' = "extract"
          /\ UNCHANGED << result, stdout >>
  /\ UNCHANGED << response, unwrapped, content, urls, i, proxies, groups,
                  exit_code, dispatched >>

\* needs_unwrap, were the prefix test left out: every text is unwrapped
needs_unwrap_always(text) == TRUE

\* lines 317-321: the condition under which the text is unwrapped once more
needs_unwrap(text) ==
  /\ startswith(strip(text), sVmess) = FALSE
  /\ startswith(strip(text), sSsr) = FALSE
  /\ startswith(strip(text), sSs) = FALSE

\* lines 315-324: the text the links are searched in
unwrap_content(text) ==
  IF needs_unwrap(text)
  THEN With(safe_b64decode(strip(text)), LAMBDA decoded_once_more :
         IF Len(decoded_once_more) > 0 THEN decoded_once_more ELSE text)
  ELSE text

\* no_urls, were the test of lines 328-330 left out
no_urls_never(found) == FALSE

\* lines 328-330: whether the run returns "" for want of links
no_urls(found) == Len(found) = 0

\* lines 314-332
Extract ==
  /\ pc = "extract"
  /\ unwrapped' = needs_unwrap(subscription_content)
  /\ content' = unwrap_content(subscription_content)
  /\ urls' = findall(content')
  /\ IF no_urls(urls')
     THEN /\ stdout' = Append(stdout, "no links found")
          /\ result' = PyStr(<<>>)
          /\ pc' = "returned"
     ELSE /\ pc' = "convert"
          /\ UNCHANGED << stdout, result >>
  /\ UNCHANGED << response, subscription_content, i, proxies, groups,
                  exit_code, dispatched >>

\* append_proxy, were the test of line 347 left out
append_proxy_always(list, proxy) == Append(list, proxy)

\* lines 347-348
append_proxy(list, proxy) ==
  IF proxy # EmptyDict THEN Append(list, proxy) ELSE list

\* the end of one iteration of the loop of line 334
Dispatch(link, parsed, proxy) ==
  /\ proxies' = append_proxy(proxies, proxy)
  /\ dispatched' = Append(dispatched, [link |-> link, parsed |-> parsed,
                                       proxy |-> proxy, before |-> Len(proxies)])
  /\ i' = i + 1
  /\ UNCHANGED << response, pc, subscription_content, unwrapped, content, urls,
                  groups, result, stdout, exit_code >>

\* lines 337-338
ConvertVmess ==
  /\ pc = "convert"
  /\ i <= Len(urls)
  /\ startswith(urls[i], sVmess)
  /\ With(parse_vmess_url(urls[i]), LAMBDA proxy : Dispatch(urls[i], proxy, proxy))

\* lines 339-342
ConvertSsr ==
  /\ pc = "convert"
  /\ i <= Len(urls)
  /\ ~startswith(urls[i], sVmess)
  /\ startswith(urls[i], sSsr)
  /\ With(parse_ssr_url(urls[i]), LAMBDA ssr_config :
       Dispatch(urls[i], ssr_config,
                IF ssr_config # EmptyDict
                THEN ssr_to_clash_proxy(ssr_config, proxies)
                ELSE EmptyDict))

\* lines 343-345
ConvertSs ==
  /\ pc = "convert"
  /\ i <= Len(urls)
  /\ ~startswith(urls[i], sVmess)
  /\ ~startswith(urls[i], sSsr)
  /\ startswith(urls[i], sSs)
  /\ With(parse_ss_url(urls[i]), LAMBDA proxy : Dispatch(urls[i], proxy, proxy))

\* select_group, were "DIRECT" left out
select_group_no_direct(names) == names

\* line 352: the members of the manual-select group
select_group(names) == << PyStr(sDIRECT) >> \o names

\* line 353: the members of the url-test group
auto_group(names) == names

\* lines 350-358: the groups are updated and the document is dumped
UpdateGroups ==
  /\ pc = "convert"
  /\ i > Len(urls)
  /\ groups' = << select_group(proxy_names(proxies)),
                  auto_group(proxy_names(proxies)) >>
  /\ result' = [t |-> "yaml", proxies |-> proxies, groups |-> groups']
  /\ pc' = "returned"
  /\ UNCHANGED << response, subscription_content, unwrapped, content, urls, i,
                  proxies, stdout, exit_code, dispatched >>

\* main(), lines 516-531: the document is saved, or the failure reported
Main ==
  /\ pc = "returned"
  /\ IF result # PyStr(<<>>)
     THEN /\ stdout' = Append(stdout, "saved")
          /\ exit_code' = 0
     ELSE /\ stdout' = Append(stdout, "conversion failed")
          /\ exit_code' = 1
  /\ pc' = "exited"
  /\ UNCHANGED << response, subscription_content, unwrapped, content, urls, i,
                  proxies, groups, result, dispatched >>

Next ==
  \/ Fetch
  \/ Extract
  \/ ConvertVmess
  \/ ConvertSsr
  \/ ConvertSs
  \/ UpdateGroups
  \/ Main

Spec == Init /\ [][Next]_vars

(***************************************************************************)
(* The properties.  dispatched records, for the k-th link handled, the     *)
(* link, what its parser returned, the descriptor it led to and the length *)
(* of the collection before it.                                            *)
(***************************************************************************)
Done == pc \in { "returned", "exited" }

\* the collection as it was when the k-th link was handled
ProxiesBefore(k) == SubSeq(proxies, 1, dispatched[k].before)

Schemes == { sVmess, sSsr, sSs }

\* C1: whenever a link of any scheme parses to a descriptor whose name is
\* the name of a descriptor already in the collection, the descriptor
\* appended for it is named <name>_<port>, with its own port.
C1_RenamedOnCollision ==
  \A k \in 1..Len(dispatched) :
    (/\ dispatched[k].proxy # EmptyDict
     /\ InSeq(dispatched[k].parsed["name"], proxy_names(ProxiesBefore(k))))
    => dispatched[k].proxy["name"]
         = name_port(dispatched[k].parsed["name"], dispatched[k].parsed["port"])

\* C2: the names of the descriptors in the collection are pairwise distinct.
C2_NamesDistinct ==
  \A a, b \in 1..Len(proxies) : a # b => proxies[a]["name"] # proxies[b]["name"]

\* the JSON object a vmess link carries (parse_vmess_url has accepted it)
vmess_data(link) ==
  json_loads(safe_b64decode(Slice(link, Len(sVmess) + 1, Len(link)))).v

\* C3: a descriptor is appended only if server and port were extracted from
\* its link: an appended descriptor has a server, and the port of a vmess
\* descriptor is the "port" member of the link's JSON.
C3_ServerAndPortExtracted ==
  \A k \in 1..Len(dispatched) :
    dispatched[k].proxy # EmptyDict
    => /\ dispatched[k].proxy["server"] \notin { None, Absent }
       /\ startswith(dispatched[k].link, sVmess)
          => json_get(vmess_data(dispatched[k].link), sPort, Absent) # Absent

\* C4: every descriptor in the collection has an integer port in 1..65535.
C4_PortInRange ==
  \A k \in 1..Len(proxies) :
    /\ proxies[k]["port"].t = "int"
    /\ proxies[k]["port"].n \in 1..65535

\* whether the mandatory part of an ssr link decodes: base64 text holding
\* server:port:protocol:method:obfs:password before "/?", the port an
\* integer and the password base64 text
ssr_mandatory_ok(link) ==
  With(b64decode_pad2(Slice(link, Len(sSsr) + 1, Len(link))), LAMBDA decoded :
    /\ decoded.ok
    /\ With(split(decoded.v, << chSlash, chQuery >>), LAMBDA parts :
         /\ Len(parts) = 2
         /\ With(split(parts[1], << chColon >>), LAMBDA server_info :
              /\ Len(server_info) >= 6
              /\ int(server_info[2]).ok
              /\ b64decode_pad2(server_info[6]).ok)))

\* C5: an ssr link whose mandatory part decodes is not dropped, whatever
\* its optional query fields (obfsparam, protoparam, remarks) hold.
C5_OptionalFieldTolerated ==
  \A k \in 1..Len(dispatched) :
    (startswith(dispatched[k].link, sSsr) /\ ssr_mandatory_ok(dispatched[k].link))
    => /\ dispatched[k].parsed # EmptyDict
       /\ dispatched[k].proxy # EmptyDict

\* the descriptors the links handled so far led to, in link order
Emitted ==
  SelectSeq([k \in 1..Len(dispatched) |-> dispatched[k].proxy],
            LAMBDA proxy : proxy # EmptyDict)

\* the positions at which s occurs in the text the links were extracted from
Occurs(s) == { pos \in 1..Len(content) : MatchAt(content, s, pos) }

\* C6: a link that fails to parse adds nothing and does not stop the run:
\* the links are handled one by one in the order extracted, each leads to at
\* most one descriptor, the collection is the descriptors of the links that
\* parsed, and a run that returns has handled every link, in the order the
\* links occur in the text.
C6_FailedLinkSkipped ==
  /\ Len(dispatched) = i - 1
  /\ \A k \in 1..Len(dispatched) :
       /\ dispatched[k].link = urls[k]
       /\ dispatched[k].parsed = EmptyDict => dispatched[k].proxy = EmptyDict
       /\ dispatched[k].before
            = Cardinality({ m \in 1..(k - 1) : dispatched[m].proxy # EmptyDict })
  /\ proxies = Emitted
  /\ (Done /\ urls # <<>>)
     => /\ Len(dispatched) = Len(urls)
        /\ \A k \in 1..Len(urls) :
             /\ Occurs(urls[k]) # {}
             /\ k < Len(urls)
                => \E pos \in Occurs(urls[k + 1]) :
                     Min(Occurs(urls[k])) + Len(urls[k]) <= pos

\* C6 witness: a run that has returned, in which a link that failed to parse
\* was followed by one that led to a descriptor.
C6_Witness ==
  /\ pc = "returned"
  /\ Len(dispatched) = 2
  /\ dispatched[1].proxy = EmptyDict
  /\ dispatched[2].proxy # EmptyDict
  /\ Len(proxies) = 1

\* C7: a returned document's manual-select group lists DIRECT and then the
\* name of every descriptor of its proxy list, its url-test group the name of
\* every descriptor, both in proxy-list order and with nothing else.
C7_GroupsListNames ==
  result.t = "yaml"
  => /\ result.proxies = proxies
     /\ result.groups = groups
     /\ Len(groups[1]) = Len(proxies) + 1
     /\ groups[1][1] = PyStr(sDIRECT)
     /\ \A k \in 1..Len(proxies) : groups[1][k + 1] = proxies[k]["name"]
     /\ Len(groups[2]) = Len(proxies)
     /\ \A k \in 1..Len(proxies) : groups[2][k] = proxies[k]["name"]

\* C7 witness: a document with two descriptors has been returned.
C7_Witness == result.t = "yaml" /\ Len(proxies) = 2

\* whether no scheme prefix occurs in the text
NoPrefixIn(text) ==
  \A pos \in 1..Len(text) : \A scheme \in Schemes : ~MatchAt(text, scheme, pos)

\* C8: a run on a body in which no vmess://, ssr:// or ss:// occurs ends
\* with an empty collection, the groups as they were, the empty result for
\* the caller, the no-links message when there was text to search, and the
\* failure exit of main.
C8_NoLinksOutcome ==
  (Done /\ NoPrefixIn(content))
  => /\ proxies = <<>>
     /\ groups = << <<>>, <<>> >>
     /\ result = PyStr(<<>>)
     /\ Len(subscription_content) > 0 => InSeq("no links found", stdout)
     /\ pc = "exited" => (exit_code = 1 /\ InSeq("conversion failed", stdout))

\* C8 witness: a run on a non-empty text without links has exited.
C8_Witness ==
  /\ pc = "exited"
  /\ Len(content) > 0
  /\ NoPrefixIn(content)
  /\ InSeq("no links found", stdout)

\* C9, as claimed: the same link, handled twice in a run, leads to the same
\* descriptor both times, whatever the collection held.
C9_SameLinkSameDescriptor ==
  \A a, b \in 1..Len(dispatched) :
    dispatched[a].link = dispatched[b].link
    => dispatched[a].proxy = dispatched[b].proxy

\* C9, amended: the same link, handled twice in a run, is parsed to the same
\* result and leads to descriptors that agree on every field but the name;
\* a descriptor's name is the parsed name, or <name>_<port> and then the
\* parsed name was in the collection when that link was handled.  Handling
\* a link changes the collection by at most appending its descriptor.
C9_SameLinkSameButName ==
  /\ \A a, b \in 1..Len(dispatched) :
       dispatched[a].link = dispatched[b].link
       => /\ dispatched[a].parsed = dispatched[b].parsed
          /\ \A key \in Keys \ { "name" } :
               dispatched[a].proxy[key] = dispatched[b].proxy[key]
  /\ \A k \in 1..Len(dispatched) :
       /\ dispatched[k].proxy # EmptyDict
          => \/ dispatched[k].proxy["name"] = dispatched[k].parsed["name"]
             \/ /\ dispatched[k].proxy["name"]
                     = name_port(dispatched[k].parsed["name"], dispatched[k].parsed["port"])
                /\ InSeq(dispatched[k].parsed["name"], proxy_names(ProxiesBefore(k)))
       /\ dispatched[k].before <= Len(proxies)
       /\ dispatched[k].proxy # EmptyDict
          => proxies[dispatched[k].before + 1] = dispatched[k].proxy

\* C9 witness: one ssr link was handled twice and led to two descriptors
\* with different names.
C9_Witness ==
  /\ Len(dispatched) = 2
  /\ dispatched[1].link = dispatched[2].link
  /\ startswith(dispatched[1].link, sSsr)
  /\ dispatched[1].proxy # EmptyDict
  /\ dispatched[1].proxy["name"] # dispatched[2].proxy["name"]

\* C10: once the links are extracted and before any is handled, the state
\* is this: the extractor calls the lenient unwrap exactly when the trimmed
\* fetched text starts with none of the three prefixes; the links are
\* extracted from the unwrapped text when the unwrap was called and gave
\* non-empty text, and from the fetched text unchanged otherwise.
C10_UnwrapRule ==
  (pc \in { "convert", "returned", "exited" } /\ dispatched = <<>>
     /\ Len(subscription_content) > 0)
  => With(strip(subscription_content), LAMBDA trimmed :
       /\ unwrapped = ~(\E scheme \in Schemes : startswith(trimmed, scheme))
       /\ content = IF unwrapped
                    THEN With(safe_b64decode(trimmed), LAMBDA decoded_once_more :
                           IF Len(decoded_once_more) > 0
                           THEN decoded_once_more
                           ELSE subscription_content)
                    ELSE subscription_content
       /\ urls = findall(content))

\* C10 witness: the fetched text was unwrapped once more and the links were
\* extracted from the unwrapped text.
C10_Witness ==
  /\ pc = "convert"
  /\ unwrapped
  /\ content # subscription_content
  /\ Len(urls) = 2

=============================================================================
